---- MODULE Spec2Model ----
(***************************************************************************)
(* Session progression of the speech-therapy frontend.                     *)
(*                                                                         *)
(* TherapySession (src/unnamed/part_004, lines 552-1313) is a React 18     *)
(* function component.  Its state is the useState cells; every handler     *)
(* reads the cells of the render in which it was created (its closure),    *)
(* so a handler that awaits keeps the values it captured when it was       *)
(* invoked.  A step of the model is one run-to-completion piece of a       *)
(* handler: a click, or the continuation after an awaited call returns,    *)
(* together with the effect (lines 597-604) that the commit of that step   *)
(* triggers.  Requests in flight carry the values their continuation       *)
(* captured.                                                               *)
(***************************************************************************)
EXTENDS Integers, Sequences, FiniteSets, TLC

VARIABLES
    mounted,              \* the TherapySession screen is on display
    sessionId,            \* useState, line 558
    sessionLanguage,      \* line 559
    isRecording,          \* line 560
    isProcessing,         \* line 561
    isLoadingSentences,   \* line 562
    currentSentence,      \* line 563
    sessionResult,        \* line 564
    availableSentences,   \* line 565
    sentenceIndex,        \* line 566
    sessionProgress,      \* lines 569-575
    currentDifficulty,    \* line 578
    mediaRecorderRef,     \* line 581: id of the recorder the ref holds, 0 for null
    recorders,            \* getUserMedia calls and MediaRecorders that exist
    starts,               \* startSession requests in flight
    loads,                \* getSentences requests in flight
    scoring,              \* processAudio requests in flight
    completing,           \* completeSession requests in flight
    timers,               \* nextSentence continuations waiting in setTimeout (line 865)
    nSessions,            \* server sessions handed out so far
    nAttempts,            \* scoring requests sent so far
    deviations,           \* steps off the plain path so far: failed, empty or
                          \* out-of-range answers, repeated recordings and clicks
    limits,               \* how far this run is explored
    scored,               \* what the scoring service has answered since the last reset
    completion,           \* the last answer to completeSession and what followed it
    notice,               \* the alert the last step of TherapySession raised
    reported,             \* current_difficulty of the last answer to startSession
    ptOpen,               \* the PictureTherapy screen is on display
    ptVariant,            \* which of the two copies of PictureTherapy is built
    language,             \* useState of PictureTherapy
    exercises,            \* the exercises of the language: whose, and how many
    currentIndex,
    ptIsRecording,        \* isRecording of PictureTherapy
    audioBlob,            \* 0 for null, 1 for a recording
    ptIsProcessing,       \* isProcessing of PictureTherapy
    ptResult,             \* result of PictureTherapy
    showResult,
    hasPlayedWord,
    isPlayingWord,
    ptMediaRecorderRef,   \* id of the recorder the ref holds, 0 for null
    ptRecorders,          \* getUserMedia calls and MediaRecorders that exist
    plays,                \* playWord calls that have not ended yet
    feedback,             \* scoring requests of PictureTherapy in flight
    ptNotice,             \* the last alert PictureTherapy raised
    ptOutcome,            \* how the last scoring call of PictureTherapy ended
    wabScores,            \* two scores handed to the classifier, the lower first
    tiers,                \* what the classifier answered for them
    user,                 \* useState of AuthProvider, ProtectedRoute.tsx line 68
    loading,              \* line 69
    localStorage,         \* the keys user, userId and token of localStorage
    requests,             \* login and register calls in flight
    location,             \* the path the router is at
    userType,             \* the userType prop of the ProtectedRoute of /patient
    rendered,             \* what ProtectedRoute returned last, "none" when not rendered
    crashed               \* the effect of AuthProvider threw: the tree is unmounted

tsVars == << mounted, sessionId, sessionLanguage, isRecording, isProcessing,
             isLoadingSentences, currentSentence, sessionResult,
             availableSentences, sentenceIndex, sessionProgress,
             currentDifficulty, mediaRecorderRef, recorders, starts, loads,
             scoring, completing, timers, nSessions, nAttempts, deviations, limits,
             scored, completion, notice, reported >>

ptVars == << ptOpen, ptVariant, language, exercises, currentIndex, ptIsRecording,
             audioBlob, ptIsProcessing, ptResult, showResult, hasPlayedWord,
             isPlayingWord, ptMediaRecorderRef, ptRecorders, plays, feedback,
             ptNotice, ptOutcome >>

clVars == << wabScores, tiers >>

authVars == << user, loading, localStorage, requests, location, userType,
               rendered, crashed >>

vars == << tsVars, ptVars, clVars, authVars >>

-----------------------------------------------------------------------------
(* Bounds of the model *)

(* Runs are explored in two ways: a whole session with few steps off the   *)
(* plain path, and the first attempts of a session with more of them.      *)
LongAttempts == 11    \* scoring requests sent in a whole session
LongDeviations == 1   \* deviations in a whole session
ShortAttempts == 3    \* scoring requests sent in a short run
ShortDeviations == 2  \* deviations in a short run
MaxRecorders == 2     \* getUserMedia calls and recorders alive at once
MaxSessions == 2      \* sessions started
MaxPlays == 2         \* playWord calls of PictureTherapy not ended yet
MaxRequests == 2      \* login and register calls in flight

Explorations ==
    { [attempts |-> LongAttempts, deviations |-> LongDeviations],
      [attempts |-> ShortAttempts, deviations |-> ShortDeviations] }

(* Program constants *)

SessionTotal == 10    \* sessionProgress.total

Tiers == {"easy", "medium", "hard"}
Languages == {"en", "hi"}

-----------------------------------------------------------------------------
(* Numbers.  A JavaScript number that results from a division is kept as   *)
(* an exact fraction << numerator, denominator >> with denominator > 0.    *)

Abs(n) == IF n < 0 THEN -n ELSE n

RECURSIVE GCD(_, _)
GCD(a, b) == IF b = 0 THEN a ELSE GCD(b, a % b)

Frac(n, d) ==
    LET g == GCD(Abs(n), d) IN
    IF g = 0 THEN << 0, 1 >> ELSE << n \div g, d \div g >>

FracGeq(q, k) == q[1] >= k * q[2]
FracLeq(q, k) == q[1] <= k * q[2]

-----------------------------------------------------------------------------
(* Values *)

NullSession == [kind |-> "null", n |-> 0]
OfflineSession == [kind |-> "offline-session", n |-> 0]
ServerSession(n) == [kind |-> "server", n |-> n]

NoSentence == [lang |-> "none", difficulty |-> "none", pos |-> 0, src |-> "none"]
NoResult == [transcription |-> "none", accuracy |-> 0, wab_score |-> 0]

EmptyBatch == [lang |-> "none", difficulty |-> "none", len |-> 0, src |-> "none"]
Batch(lang, difficulty, len, src) ==
    [lang |-> lang, difficulty |-> difficulty, len |-> len, src |-> src]

(* availableSentences[i], 0-based *)
SentenceAt(batch, i) ==
    [lang |-> batch.lang, difficulty |-> batch.difficulty, pos |-> i, src |-> batch.src]

(* The initial value of sessionProgress, also written by the reset *)
FreshProgress ==
    [current |-> 1, total |-> SessionTotal, completed |-> 0,
     accuracy |-> << 0, 1 >>, totalWabScore |-> 0]

(* Responses of the scoring service: accuracy and wab_score of an attempt. *)
(* The last one lies outside the documented 0..100 range.                  *)
InRangeResults ==
    { [accuracy |-> 40, wab_score |-> 30], [accuracy |-> 90, wab_score |-> 80] }
MalformedResults ==
    { [accuracy |-> 130, wab_score |-> 120] }

InRange(x) == 0 <= x /\ x <= 100
Malformed(r) == ~InRange(r.accuracy) \/ ~InRange(r.wab_score)

RemoveAt(s, i) == SubSeq(s, 1, i - 1) \o SubSeq(s, i + 1, Len(s))

-----------------------------------------------------------------------------
(* Variants of the classifier: bands that exclude their lower bound, and  *)
(* bands in another order.                                                 *)
StrictBands(wabScore) ==
    IF ~FracLeq(wabScore, 76) THEN "hard"
    ELSE IF ~FracLeq(wabScore, 51) THEN "medium"
    ELSE "easy"

SwappedBands(wabScore) ==
    IF FracGeq(wabScore, 76) THEN "hard"
    ELSE IF FracGeq(wabScore, 51) THEN "easy"
    ELSE "medium"

(* getDifficultyFromWabScore, on a fraction *)
getDifficultyFromWabScore(wabScore) ==
    IF FracGeq(wabScore, 76) THEN "hard"
    ELSE IF FracGeq(wabScore, 51) THEN "medium"
    ELSE "easy"

(* A variant of the updater that averages the old mean and the new score *)
ScoredProgressHalved(prev, result) ==
    [prev EXCEPT
        !.completed = prev.completed + 1,
        !.accuracy = Frac(prev.accuracy[1] + result.accuracy * prev.accuracy[2],
                          prev.accuracy[2] * 2),
        !.totalWabScore = prev.totalWabScore + result.wab_score]

(* The updater passed to setSessionProgress after a scored attempt *)
ScoredProgress(prev, result) ==
    [prev EXCEPT
        !.completed = prev.completed + 1,
        !.accuracy = Frac(prev.accuracy[1] * prev.completed
                            + result.accuracy * prev.accuracy[2],
                          prev.accuracy[2] * (prev.completed + 1)),
        !.totalWabScore = prev.totalWabScore + result.wab_score]

(* avgWabScore, from the sessionProgress the handler captured *)
AvgWabScore(captured, result) ==
    Frac(captured.totalWabScore + result.wab_score, captured.completed + 1)

(* A variant of the result of a failed scoring call that carries scores *)
FabricatedResult ==
    [transcription |-> "[Error processing audio]", accuracy |-> 75, wab_score |-> 75]

(* The result shown after a failed scoring call *)
ErrorResult ==
    [transcription |-> "[Error processing audio]", accuracy |-> 0, wab_score |-> 0]

(* The mock sentences of loadFallbackSentences: their number per tier *)
MockLen(difficulty) == IF difficulty = "easy" THEN 2 ELSE 1

-----------------------------------------------------------------------------
(* The effect of lines 597-604: after a commit that changed sessionLanguage, *)
(* currentDifficulty or sessionId, load sentences if there is a session.     *)
EffectLoads(lang, difficulty, sid) ==
    IF /\ << lang, difficulty, sid >> # << sessionLanguage, currentDifficulty, sessionId >>
       /\ sid # NullSession
    THEN << [lang |-> lang, difficulty |-> difficulty, fallback |-> difficulty] >>
    ELSE << >>

(* What a handler created in the current render sees, as far as it reads it *)
Closure ==
    [sessionId |-> sessionId, lang |-> sessionLanguage,
     difficulty |-> currentDifficulty, sentence |-> currentSentence,
     totalWabScore |-> sessionProgress.totalWabScore,
     completed |-> sessionProgress.completed]

(* The record of the service's successful answers: how many, the sums of   *)
(* the accuracies as reported and as clamped to 0..100, and the sum of the *)
(* wab scores.                                                             *)
NothingScored ==
    [count |-> 0, accuracy |-> 0, clamped |-> 0, wab |-> 0]

Clamp(x) == IF x < 0 THEN 0 ELSE IF x > 100 THEN 100 ELSE x

Answered(s, result) ==
    [count |-> s.count + 1,
     accuracy |-> s.accuracy + result.accuracy,
     clamped |-> s.clamped + Clamp(result.accuracy),
     wab |-> s.wab + result.wab_score]

(* The record of the answers to completeSession: how many there were, the  *)
(* tier the request was sent with, the tier the last answer named, and     *)
(* what followed: "accepted" or "declined" in the confirm dialog, "same"   *)
(* when the answer named no other tier, "failed" when the call failed.     *)
NoCompletion == [n |-> 0, asked |-> "none", tier |-> "none", then |-> "none"]

Completed(req, next_difficulty, then) ==
    [n |-> completion.n + 1, asked |-> req.difficulty, tier |-> next_difficulty,
     then |-> then]

(* The screen shows the session card: not the loader, and a sentence is set *)
CardShown == mounted /\ ~isLoadingSentences /\ currentSentence # NoSentence

-----------------------------------------------------------------------------
TSInit ==
    /\ mounted = TRUE
    /\ sessionId = NullSession
    /\ sessionLanguage = "en"
    /\ isRecording = FALSE
    /\ isProcessing = FALSE
    /\ isLoadingSentences = FALSE
    /\ currentSentence = NoSentence
    /\ sessionResult = NoResult
    /\ availableSentences = EmptyBatch
    /\ sentenceIndex = 0
    /\ sessionProgress = FreshProgress
    /\ currentDifficulty = "easy"
    /\ mediaRecorderRef = 0
    /\ recorders = {}
    /\ starts = << [lang |-> "en", difficulty |-> "easy", chain |-> "none",
                    fallback |-> "easy"] >>
    /\ loads = << >>
    /\ scoring = << >>
    /\ completing = << >>
    /\ timers = << >>
    /\ nSessions = 0
    /\ nAttempts = 0
    /\ deviations = 0
    /\ limits \in Explorations
    /\ scored = NothingScored
    /\ completion = NoCompletion
    /\ notice = "none"
    /\ reported = "none"


(* The screen is not on display *)
TSIdle ==
    /\ mounted = FALSE
    /\ sessionId = NullSession
    /\ sessionLanguage = "en"
    /\ isRecording = FALSE
    /\ isProcessing = FALSE
    /\ isLoadingSentences = FALSE
    /\ currentSentence = NoSentence
    /\ sessionResult = NoResult
    /\ availableSentences = EmptyBatch
    /\ sentenceIndex = 0
    /\ sessionProgress = FreshProgress
    /\ currentDifficulty = "easy"
    /\ mediaRecorderRef = 0
    /\ recorders = {}
    /\ starts = << >>
    /\ loads = << >>
    /\ scoring = << >>
    /\ completing = << >>
    /\ timers = << >>
    /\ nSessions = 0
    /\ nAttempts = 0
    /\ deviations = 0
    /\ limits = [attempts |-> ShortAttempts, deviations |-> ShortDeviations]
    /\ scored = NothingScored
    /\ completion = NoCompletion
    /\ notice = "none"
    /\ reported = "none"

-----------------------------------------------------------------------------
(* initializeSession, lines 613-642: the continuation after startSession.   *)
(* A call made by nextSentence (line 869) returns to line 876,              *)
(* loadSentencesFromAPI(newDifficulty), with the closure of nextSentence.   *)

ChainLoads(req) ==
    IF req.chain = "none" THEN << >>
    ELSE << [lang |-> req.lang, difficulty |-> req.chain, fallback |-> req.fallback] >>

(* lines 621-627: current_difficulty is "none" when the answer has none *)
StartSessionOk(i, current_difficulty) ==
    LET req == starts[i]
        sid == ServerSession(nSessions + 1)
        diff == IF current_difficulty = "none" THEN currentDifficulty
                ELSE current_difficulty
        new == EffectLoads(sessionLanguage, diff, sid) \o ChainLoads(req)
    IN  /\ mounted
        /\ starts' = RemoveAt(starts, i)
        /\ nSessions' = nSessions + 1
        /\ sessionId' = sid
        /\ currentDifficulty' = diff
        /\ reported' = current_difficulty
        /\ loads' = loads \o new
        /\ isLoadingSentences' = (isLoadingSentences \/ new # << >>)
        /\ notice' = "none"
        /\ UNCHANGED << mounted, sessionLanguage, isRecording, isProcessing,
                        currentSentence, sessionResult, availableSentences,
                        sentenceIndex, sessionProgress, mediaRecorderRef,
                        recorders, scoring, completing, timers, nAttempts,
                        deviations, limits, scored, completion, ptVars,
                        clVars, authVars >>

(* lines 637-641 *)
StartSessionFail(i) ==
    LET req == starts[i]
        new == EffectLoads(sessionLanguage, currentDifficulty, OfflineSession)
                 \o ChainLoads(req)
    IN  /\ mounted
        /\ deviations < limits.deviations
        /\ deviations' = deviations + 1
        /\ starts' = RemoveAt(starts, i)
        /\ nSessions' = nSessions + 1
        /\ sessionId' = OfflineSession
        /\ loads' = loads \o new
        /\ isLoadingSentences' = (isLoadingSentences \/ new # << >>)
        /\ notice' = "none"
        /\ UNCHANGED << mounted, sessionLanguage, isRecording, isProcessing,
                        currentSentence, sessionResult, availableSentences,
                        sentenceIndex, sessionProgress, currentDifficulty,
                        mediaRecorderRef, recorders, scoring, completing,
                        timers, nAttempts, limits, scored, completion,
                        reported, ptVars, clVars, authVars >>

-----------------------------------------------------------------------------
(* loadSentencesFromAPI, lines 644-669 *)

(* line 645-652: the call, with the closure of the caller *)
LoadRequest(difficultyToUse) ==
    [lang |-> sessionLanguage, difficulty |-> difficultyToUse,
     fallback |-> currentDifficulty]

(* How many sentences an answer holds: none, or the count asked for *)
BatchSizes == {0, SessionTotal}

(* lines 654-661 and 667: the answer holds len sentences *)
LoadOk(i, len) ==
    LET req == loads[i]
        batch == Batch(req.lang, req.difficulty, len, "api")
    IN  /\ mounted
        /\ len = 0 => deviations < limits.deviations
        /\ deviations' = IF len = 0 THEN deviations + 1 ELSE deviations
        /\ loads' = RemoveAt(loads, i)
        /\ availableSentences' = batch
        /\ sentenceIndex' = 0
        /\ currentSentence' = IF len > 0 THEN SentenceAt(batch, 0) ELSE currentSentence
        /\ isLoadingSentences' = FALSE
        /\ notice' = "none"
        /\ UNCHANGED << mounted, sessionId, sessionLanguage, isRecording,
                        isProcessing, sessionResult, sessionProgress,
                        currentDifficulty, mediaRecorderRef, recorders,
                        starts, scoring, completing, timers, nSessions,
                        nAttempts, limits, scored, completion, reported,
                        ptVars, clVars, authVars >>

(* lines 662-667 with loadFallbackSentences, lines 671-689, which reads the *)
(* currentDifficulty of the render that made the call.                      *)
LoadFail(i) ==
    LET req == loads[i]
        batch == Batch(req.lang, req.fallback, MockLen(req.fallback), "mock")
    IN  /\ mounted
        /\ deviations < limits.deviations
        /\ deviations' = deviations + 1
        /\ loads' = RemoveAt(loads, i)
        /\ availableSentences' = batch
        /\ currentSentence' = SentenceAt(batch, 0)
        /\ isLoadingSentences' = FALSE
        /\ notice' = "none"
        /\ UNCHANGED << mounted, sessionId, sessionLanguage, isRecording,
                        isProcessing, sessionResult, sentenceIndex,
                        sessionProgress, currentDifficulty,
                        mediaRecorderRef, recorders, starts, scoring,
                        completing, timers, nSessions, nAttempts, limits,
                        scored, completion, reported, ptVars, clVars,
                        authVars >>

(* The refresh button, lines 1072-1078 *)
Refresh ==
    /\ CardShown
    /\ ~isRecording /\ ~isProcessing
    /\ deviations < limits.deviations
    /\ deviations' = deviations + 1
    /\ isLoadingSentences' = TRUE
    /\ loads' = Append(loads, LoadRequest(currentDifficulty))
    /\ notice' = "none"
    /\ UNCHANGED << mounted, sessionId, sessionLanguage, isRecording,
                    isProcessing, currentSentence, sessionResult,
                    availableSentences, sentenceIndex, sessionProgress,
                    currentDifficulty, mediaRecorderRef, recorders, starts,
                    scoring, completing, timers, nSessions, nAttempts,
                    limits, scored, completion, reported, ptVars, clVars,
                    authVars >>

(* changeLanguage, lines 896-900, from the selector of lines 976-986 *)
changeLanguage(newLanguage) ==
    LET new == EffectLoads(newLanguage, currentDifficulty, sessionId) IN
    /\ mounted /\ ~isLoadingSentences
    /\ newLanguage # sessionLanguage
    /\ deviations < limits.deviations
    /\ deviations' = deviations + 1
    /\ sessionLanguage' = newLanguage
    /\ loads' = loads \o new
    /\ isLoadingSentences' = (new # << >>)
    /\ notice' = "none"
    /\ UNCHANGED << mounted, sessionId, isRecording, isProcessing,
                    currentSentence, sessionResult, availableSentences,
                    sentenceIndex, sessionProgress, currentDifficulty,
                    mediaRecorderRef, recorders, starts, scoring,
                    completing, timers, nSessions, nAttempts, limits,
                    scored, completion, reported, ptVars, clVars, authVars >>

-----------------------------------------------------------------------------
(* Recording.  A recorder is [id, state, closure]: "acquiring" while        *)
(* getUserMedia is pending, "recording" after start(), "stopping" once      *)
(* stop() was called, its tracks were stopped and its stop event is queued, *)
(* "leaked" when it records and the ref holds another recorder.  It leaves  *)
(* the set when its stop event has been handled.                            *)
(* mediaRecorderRef is 0 for null, -1 for a recorder that has left the set. *)

InTransit == { r \in recorders : r.state \in {"acquiring", "stopping"} }

FreshId == CHOOSE n \in 1..(MaxRecorders + 1) : \A r \in recorders : r.id # n

(* A recording the plain path does not have: beside another one, or after  *)
(* the sentence was scored already.                                        *)
ExtraRecording ==
    \/ InTransit # {}
    \/ sessionResult \notin {NoResult, ErrorResult}

(* startRecording up to its await, line 693, from the record button of      *)
(* lines 1055-1070: disabled while isProcessing, and bound to startRecording *)
(* while isRecording is false.                                              *)
startRecording ==
    /\ CardShown
    /\ ~isProcessing /\ ~isRecording
    /\ nAttempts + Cardinality(recorders) < limits.attempts
    /\ Cardinality(recorders) < MaxRecorders
    /\ ExtraRecording => deviations < limits.deviations
    /\ deviations' = IF ExtraRecording THEN deviations + 1 ELSE deviations
    /\ recorders' = recorders \cup
          { [id |-> FreshId, state |-> "acquiring", closure |-> Closure] }
    /\ notice' = "none"
    /\ UNCHANGED << mounted, sessionId, sessionLanguage, isRecording,
                    isProcessing, isLoadingSentences, currentSentence,
                    sessionResult, availableSentences, sentenceIndex,
                    sessionProgress, currentDifficulty, mediaRecorderRef,
                    starts, loads, scoring, completing, timers, nSessions,
                    nAttempts, limits, scored, completion, reported, ptVars,
                    clVars, authVars >>

(* getUserMedia resolved: lines 694-710.  The ref now holds the new         *)
(* recorder; a recorder it held that is still recording can no longer be    *)
(* reached by stopRecording, so its stop handler never runs and what that   *)
(* handler captured is dropped from the state.                              *)
NoClosure ==
    [sessionId |-> NullSession, lang |-> "none", difficulty |-> "none",
     sentence |-> NoSentence, totalWabScore |-> 0, completed |-> 0]

Unreachable(q) ==
    IF q.state = "recording" THEN [q EXCEPT !.state = "leaked", !.closure = NoClosure]
    ELSE q

GetUserMediaOk(r) ==
    /\ mounted
    /\ r \in recorders /\ r.state = "acquiring"
    /\ recorders' = { Unreachable(q) : q \in recorders \ {r} }
                        \cup {[r EXCEPT !.state = "recording"]}
    /\ mediaRecorderRef' = r.id
    /\ isRecording' = TRUE
    /\ notice' = "none"
    /\ UNCHANGED << mounted, sessionId, sessionLanguage, isProcessing,
                    isLoadingSentences, currentSentence, sessionResult,
                    availableSentences, sentenceIndex, sessionProgress,
                    currentDifficulty, starts, loads, scoring, completing,
                    timers, nSessions, nAttempts, deviations, limits,
                    scored, completion, reported, ptVars, clVars, authVars >>

(* A variant of the rejection in which the recording flag was set before   *)
(* the await and is left set                                                *)
GetUserMediaDeniedRecording(r) ==
    /\ mounted
    /\ r \in recorders /\ r.state = "acquiring"
    /\ recorders' = recorders \ {r}
    /\ isRecording' = TRUE
    /\ notice' = "microphone"
    /\ UNCHANGED << mounted, sessionId, sessionLanguage, isProcessing,
                    isLoadingSentences, currentSentence, sessionResult,
                    availableSentences, sentenceIndex, sessionProgress,
                    currentDifficulty, mediaRecorderRef, starts, loads,
                    scoring, completing, timers, nSessions, nAttempts,
                    deviations, limits, scored, completion, reported,
                    ptVars, clVars, authVars >>

(* getUserMedia rejected: lines 711-714 *)
GetUserMediaDenied(r) ==
    /\ mounted
    /\ r \in recorders /\ r.state = "acquiring"
    /\ recorders' = recorders \ {r}
    /\ notice' = "microphone"
    /\ UNCHANGED << mounted, sessionId, sessionLanguage, isRecording,
                    isProcessing, isLoadingSentences, currentSentence,
                    sessionResult, availableSentences, sentenceIndex,
                    sessionProgress, currentDifficulty, mediaRecorderRef,
                    starts, loads, scoring, completing, timers, nSessions,
                    nAttempts, deviations, limits, scored, completion,
                    reported, ptVars, clVars, authVars >>

(* stopRecording, lines 717-723 *)
stopRecording ==
    /\ CardShown
    /\ ~isProcessing /\ isRecording
    /\ mediaRecorderRef > 0
    /\ recorders' = { IF r.id = mediaRecorderRef /\ r.state = "recording"
                      THEN [r EXCEPT !.state = "stopping"] ELSE r : r \in recorders }
    /\ isRecording' = FALSE
    /\ notice' = "none"
    /\ UNCHANGED << mounted, sessionId, sessionLanguage, isProcessing,
                    isLoadingSentences, currentSentence, sessionResult,
                    availableSentences, sentenceIndex, sessionProgress,
                    currentDifficulty, mediaRecorderRef, starts, loads,
                    scoring, completing, timers, nSessions, nAttempts,
                    deviations, limits, scored, completion, reported,
                    ptVars, clVars, authVars >>

(* mediaRecorder.onstop, lines 704-707, then processAudio up to its await,  *)
(* lines 725-745, with the closure of the startRecording call.              *)
OnStop(r) ==
    /\ mounted
    /\ r \in recorders /\ r.state = "stopping"
    /\ recorders' = recorders \ {r}
    /\ mediaRecorderRef' = IF mediaRecorderRef = r.id THEN -1 ELSE mediaRecorderRef
    /\ IF r.closure.sentence = NoSentence \/ r.closure.sessionId = NullSession
       THEN UNCHANGED << isProcessing, scoring, nAttempts >>
       ELSE /\ isProcessing' = TRUE
            /\ scoring' = Append(scoring, r.closure)
            /\ nAttempts' = nAttempts + 1
    /\ notice' = "none"
    /\ UNCHANGED << mounted, sessionId, sessionLanguage, isRecording,
                    isLoadingSentences, currentSentence, sessionResult,
                    availableSentences, sentenceIndex, sessionProgress,
                    currentDifficulty, starts, loads, completing, timers,
                    nSessions, deviations, limits, scored, completion,
                    reported, ptVars, clVars, authVars >>

-----------------------------------------------------------------------------
(* processAudio after its await, lines 747-774 and 793-795.  The updater of *)
(* setSessionProgress reads the state of the moment; avgWabScore and the    *)
(* comparison with currentDifficulty read what the handler captured.        *)

(* line 752 *)
ShownResult(result) ==
    [transcription |-> "heard", accuracy |-> result.accuracy,
     wab_score |-> result.wab_score]

(* lines 766-772 *)
AdjustedDifficulty(req, result) ==
    LET newDifficulty == getDifficultyFromWabScore(AvgWabScore(req, result)) IN
    IF newDifficulty # req.difficulty THEN newDifficulty ELSE currentDifficulty

ProcessAudioOk(i, result) ==
    LET req == scoring[i]
        diff == AdjustedDifficulty(req, result)
        new == EffectLoads(sessionLanguage, diff, sessionId)
    IN  /\ mounted
        /\ Malformed(result) => deviations < limits.deviations
        /\ deviations' = IF Malformed(result) THEN deviations + 1 ELSE deviations
        /\ scoring' = RemoveAt(scoring, i)
        /\ scored' = Answered(scored, result)
        /\ sessionResult' = ShownResult(result)
        /\ sessionProgress' = ScoredProgress(sessionProgress, result)
        /\ currentDifficulty' = diff
        /\ isProcessing' = FALSE
        /\ loads' = loads \o new
        /\ isLoadingSentences' = (isLoadingSentences \/ new # << >>)
        /\ notice' = "none"
        /\ UNCHANGED << mounted, sessionId, sessionLanguage, isRecording,
                        currentSentence, availableSentences, sentenceIndex,
                        mediaRecorderRef, recorders, starts, completing,
                        timers, nSessions, nAttempts, limits, completion,
                        reported, ptVars, clVars, authVars >>

(* A variant of the catch block that has no finally: the processing flag  *)
(* stays set                                                               *)
ProcessAudioFailStuck(i) ==
    /\ mounted
    /\ i \in 1..Len(scoring)
    /\ deviations < limits.deviations
    /\ deviations' = deviations + 1
    /\ scoring' = RemoveAt(scoring, i)
    /\ sessionResult' = ErrorResult
    /\ notice' = "processing"
    /\ UNCHANGED << mounted, sessionId, sessionLanguage, isRecording,
                    isProcessing, isLoadingSentences, currentSentence,
                    availableSentences, sentenceIndex, sessionProgress,
                    currentDifficulty, mediaRecorderRef, recorders, starts,
                    loads, completing, timers, nSessions, nAttempts, limits,
                    scored, completion, reported, ptVars, clVars, authVars >>

(* A variant of the catch block that counts the failed attempt *)
ProcessAudioFailCounted(i) ==
    /\ mounted
    /\ i \in 1..Len(scoring)
    /\ deviations < limits.deviations
    /\ deviations' = deviations + 1
    /\ scoring' = RemoveAt(scoring, i)
    /\ sessionResult' = ErrorResult
    /\ sessionProgress' = [sessionProgress EXCEPT !.completed = @ + 1]
    /\ isProcessing' = FALSE
    /\ notice' = "processing"
    /\ UNCHANGED << mounted, sessionId, sessionLanguage, isRecording,
                    isLoadingSentences, currentSentence, availableSentences,
                    sentenceIndex, currentDifficulty, mediaRecorderRef,
                    recorders, starts, loads, completing, timers, nSessions,
                    nAttempts, limits, scored, completion, reported, ptVars,
                    clVars, authVars >>

(* processAudio, the catch of lines 776-795 *)
ProcessAudioFail(i) ==
    /\ mounted
    /\ i \in 1..Len(scoring)
    /\ deviations < limits.deviations
    /\ deviations' = deviations + 1
    /\ scoring' = RemoveAt(scoring, i)
    /\ sessionResult' = ErrorResult
    /\ isProcessing' = FALSE
    /\ notice' = "processing"
    /\ UNCHANGED << mounted, sessionId, sessionLanguage, isRecording,
                    isLoadingSentences, currentSentence, availableSentences,
                    sentenceIndex, sessionProgress, currentDifficulty,
                    mediaRecorderRef, recorders, starts, loads, completing,
                    timers, nSessions, nAttempts, limits, scored,
                    completion, reported, ptVars, clVars, authVars >>

-----------------------------------------------------------------------------
(* nextSentence, lines 814-894, from the button of lines 1264-1282, which   *)
(* is rendered when a result is set and no request is being processed       *)
(* (line 1113).                                                             *)

NextShown == CardShown /\ sessionResult # NoResult /\ ~isProcessing

(* lines 815-828 *)
nextSentenceAdvance ==
    LET nextIndex == sentenceIndex + 1 IN
    /\ NextShown
    /\ sessionProgress.current < sessionProgress.total
    /\ sessionProgress' = [sessionProgress EXCEPT !.current = @ + 1]
    /\ sessionResult' = NoResult
    /\ IF nextIndex < availableSentences.len
       THEN /\ sentenceIndex' = nextIndex
            /\ currentSentence' = SentenceAt(availableSentences, nextIndex)
            /\ UNCHANGED << loads, isLoadingSentences >>
       ELSE /\ loads' = Append(loads, LoadRequest(currentDifficulty))
            /\ isLoadingSentences' = TRUE
            /\ UNCHANGED << sentenceIndex, currentSentence >>
    /\ notice' = "none"
    /\ UNCHANGED << mounted, sessionId, sessionLanguage, isRecording,
                    isProcessing, availableSentences, currentDifficulty,
                    mediaRecorderRef, recorders, starts, scoring,
                    completing, timers, nSessions, nAttempts, deviations,
                    limits, scored, completion, reported, ptVars, clVars,
                    authVars >>

(* navigate('/patient/dashboard'), lines 892 and 1302: the screen is left.  *)
(* Its state is no longer displayed, and an answer that arrives later       *)
(* updates nothing.                                                         *)
Leave ==
    /\ mounted' = FALSE
    /\ starts' = << >>
    /\ loads' = << >>
    /\ scoring' = << >>
    /\ completing' = << >>
    /\ timers' = << >>

(* A variant that sends completeSession one exercise before the quota is   *)
(* used up                                                                  *)
nextSentenceCompleteEarly ==
    /\ NextShown
    /\ ~(sessionProgress.current < sessionProgress.total - 1)
    /\ completing # << >> => deviations < limits.deviations
    /\ deviations' = IF completing # << >> THEN deviations + 1 ELSE deviations
    /\ IF sessionId # NullSession
       THEN /\ completing' = Append(completing, Closure)
            /\ UNCHANGED << mounted, starts, loads, scoring, timers >>
       ELSE Leave
    /\ notice' = "none"
    /\ UNCHANGED << sessionId, sessionLanguage, isRecording, isProcessing,
                    isLoadingSentences, currentSentence, sessionResult,
                    availableSentences, sentenceIndex, sessionProgress,
                    currentDifficulty, mediaRecorderRef, recorders,
                    nSessions, nAttempts, limits, scored, completion,
                    reported, ptVars, clVars, authVars >>

(* lines 829-833: the quota is used up, completeSession is sent *)
nextSentenceComplete ==
    /\ NextShown
    /\ ~(sessionProgress.current < sessionProgress.total)
    /\ completing # << >> => deviations < limits.deviations
    /\ deviations' = IF completing # << >> THEN deviations + 1 ELSE deviations
    /\ IF sessionId # NullSession
       THEN /\ completing' = Append(completing, Closure)
            /\ UNCHANGED << mounted, starts, loads, scoring, timers >>
       ELSE Leave
    /\ notice' = "none"
    /\ UNCHANGED << sessionId, sessionLanguage, isRecording, isProcessing,
                    isLoadingSentences, currentSentence, sessionResult,
                    availableSentences, sentenceIndex, sessionProgress,
                    currentDifficulty, mediaRecorderRef, recorders,
                    nSessions, nAttempts, limits, scored, completion,
                    reported, ptVars, clVars, authVars >>

(* A variant of the accepted continuation that keeps the tier it had *)
CompleteAcceptedKeepingTier(i, next_difficulty) ==
    LET req == completing[i]
    IN  /\ mounted
        /\ next_difficulty # req.difficulty
        /\ nSessions + Len(starts) + Len(timers) < MaxSessions
        /\ completing' = RemoveAt(completing, i)
        /\ sessionProgress' = FreshProgress
        /\ scored' = NothingScored
        /\ completion' = Completed(req, next_difficulty, "accepted")
        /\ currentSentence' = NoSentence
        /\ sessionResult' = NoResult
        /\ timers' = Append(timers, [next |-> next_difficulty, lang |-> req.lang,
                                     difficulty |-> req.difficulty])
        /\ notice' = "none"
        /\ UNCHANGED << mounted, sessionId, sessionLanguage, isRecording,
                        isProcessing, isLoadingSentences,
                        availableSentences, sentenceIndex,
                        currentDifficulty, mediaRecorderRef, recorders,
                        starts, loads, scoring, nSessions, nAttempts,
                        deviations, limits, reported, ptVars, clVars,
                        authVars >>

(* lines 837-880: the answer names another tier than the one captured and   *)
(* the user accepts the confirm dialog                                      *)
CompleteAccepted(i, next_difficulty) ==
    LET req == completing[i]
        new == EffectLoads(sessionLanguage, next_difficulty, sessionId)
    IN  /\ mounted
        /\ next_difficulty # req.difficulty
        /\ nSessions + Len(starts) + Len(timers) < MaxSessions
        /\ completing' = RemoveAt(completing, i)
        /\ currentDifficulty' = next_difficulty
        /\ sessionProgress' = FreshProgress
        /\ scored' = NothingScored
        /\ completion' = Completed(req, next_difficulty, "accepted")
        /\ currentSentence' = NoSentence
        /\ sessionResult' = NoResult
        /\ loads' = loads \o new
        /\ isLoadingSentences' = (isLoadingSentences \/ new # << >>)
        /\ timers' = Append(timers, [next |-> next_difficulty, lang |-> req.lang,
                                     difficulty |-> req.difficulty])
        /\ notice' = "none"
        /\ UNCHANGED << mounted, sessionId, sessionLanguage, isRecording,
                        isProcessing, availableSentences, sentenceIndex,
                        mediaRecorderRef, recorders, starts, scoring,
                        nSessions, nAttempts, deviations, limits, reported,
                        ptVars, clVars, authVars >>

(* A variant of the refusal that takes the tier of the answer all the same *)
CompleteDeclinedAdopting(i, next_difficulty) ==
    /\ mounted
    /\ i \in 1..Len(completing)
    /\ next_difficulty # completing[i].difficulty
    /\ completion' = Completed(completing[i], next_difficulty, "declined")
    /\ currentDifficulty' = next_difficulty
    /\ Leave
    /\ notice' = "none"
    /\ UNCHANGED << sessionId, sessionLanguage, isRecording, isProcessing,
                    isLoadingSentences, currentSentence, sessionResult,
                    availableSentences, sentenceIndex, sessionProgress,
                    mediaRecorderRef, recorders, nSessions, nAttempts,
                    deviations, limits, scored, reported, ptVars, clVars,
                    authVars >>

(* lines 843 and 892: the user declines *)
CompleteDeclined(i, next_difficulty) ==
    /\ mounted
    /\ i \in 1..Len(completing)
    /\ next_difficulty # completing[i].difficulty
    /\ completion' = Completed(completing[i], next_difficulty, "declined")
    /\ Leave
    /\ notice' = "none"
    /\ UNCHANGED << sessionId, sessionLanguage, isRecording, isProcessing,
                    isLoadingSentences, currentSentence, sessionResult,
                    availableSentences, sentenceIndex, sessionProgress,
                    currentDifficulty, mediaRecorderRef, recorders,
                    nSessions, nAttempts, deviations, limits, scored,
                    reported, ptVars, clVars, authVars >>

(* lines 837 and 882-892: the answer names no other tier; when it carries  *)
(* a progression_message, that message is shown, line 884                   *)
CompleteSameTier(i) ==
    /\ mounted
    /\ i \in 1..Len(completing)
    /\ completion' = Completed(completing[i], completing[i].difficulty, "same")
    /\ notice' \in {"none", "progression"}
    /\ Leave
    /\ UNCHANGED << sessionId, sessionLanguage, isRecording, isProcessing,
                    isLoadingSentences, currentSentence, sessionResult,
                    availableSentences, sentenceIndex, sessionProgress,
                    currentDifficulty, mediaRecorderRef, recorders,
                    nSessions, nAttempts, deviations, limits, scored,
                    reported, ptVars, clVars, authVars >>

(* lines 887-892: completeSession failed *)
CompleteFail(i) ==
    /\ mounted
    /\ i \in 1..Len(completing)
    /\ deviations < limits.deviations
    /\ deviations' = deviations + 1
    /\ completion' = Completed(completing[i], "none", "failed")
    /\ Leave
    /\ notice' = "none"
    /\ UNCHANGED << sessionId, sessionLanguage, isRecording, isProcessing,
                    isLoadingSentences, currentSentence, sessionResult,
                    availableSentences, sentenceIndex, sessionProgress,
                    currentDifficulty, mediaRecorderRef, recorders,
                    nSessions, nAttempts, limits, scored, reported, ptVars,
                    clVars, authVars >>

(* line 865 has elapsed: initializeSession is called, line 869, and sends   *)
(* startSession with the language and tier nextSentence captured            *)
TimerFires(i) ==
    LET t == timers[i] IN
    /\ mounted
    /\ timers' = RemoveAt(timers, i)
    /\ starts' = Append(starts, [lang |-> t.lang, difficulty |-> t.difficulty,
                                 chain |-> t.next, fallback |-> t.difficulty])
    /\ notice' = "none"
    /\ UNCHANGED << mounted, sessionId, sessionLanguage, isRecording,
                    isProcessing, isLoadingSentences, currentSentence,
                    sessionResult, availableSentences, sentenceIndex,
                    sessionProgress, currentDifficulty, mediaRecorderRef,
                    recorders, loads, scoring, completing, nSessions,
                    nAttempts, deviations, limits, scored, completion,
                    reported, ptVars, clVars, authVars >>

(* The button of the summary card, lines 1290-1308 *)
BackToDashboard ==
    /\ mounted /\ ~isLoadingSentences
    /\ sessionProgress.completed = sessionProgress.total
    /\ Leave
    /\ notice' = "none"
    /\ UNCHANGED << sessionId, sessionLanguage, isRecording, isProcessing,
                    isLoadingSentences, currentSentence, sessionResult,
                    availableSentences, sentenceIndex, sessionProgress,
                    currentDifficulty, mediaRecorderRef, recorders,
                    nSessions, nAttempts, deviations, limits, scored,
                    completion, reported, ptVars, clVars, authVars >>

-----------------------------------------------------------------------------
TSNext ==
    \/ \E i \in 1..Len(starts) : \E d \in Tiers \cup {"none"} : StartSessionOk(i, d)
    \/ \E i \in 1..Len(starts) : StartSessionFail(i)
    \/ \E i \in 1..Len(loads) : \E len \in BatchSizes : LoadOk(i, len)
    \/ \E i \in 1..Len(loads) : LoadFail(i)
    \/ Refresh
    \/ \E l \in Languages : changeLanguage(l)
    \/ startRecording
    \/ \E r \in recorders : GetUserMediaOk(r)
    \/ \E r \in recorders : GetUserMediaDenied(r)
    \/ stopRecording
    \/ \E r \in recorders : OnStop(r)
    \/ \E i \in 1..Len(scoring) :
          \E result \in InRangeResults \cup MalformedResults : ProcessAudioOk(i, result)
    \/ \E i \in 1..Len(scoring) : ProcessAudioFail(i)
    \/ nextSentenceAdvance
    \/ nextSentenceComplete
    \/ \E i \in 1..Len(completing) : \E d \in Tiers : CompleteAccepted(i, d)
    \/ \E i \in 1..Len(completing) : \E d \in Tiers : CompleteDeclined(i, d)
    \/ \E i \in 1..Len(completing) : CompleteSameTier(i)
    \/ \E i \in 1..Len(completing) : CompleteFail(i)
    \/ \E i \in 1..Len(timers) : TimerFires(i)
    \/ BackToDashboard

-----------------------------------------------------------------------------
(* PictureTherapy.  The repository holds two copies of the component:      *)
(* src/unnamed/part_003, lines 490-1032 (variant 1), and                   *)
(* src/unnamed/part_004, lines 25-500 (variant 2).  They differ in         *)
(* resetExercise, in playWord and in the guard of processAudio.            *)

Variants == {1, 2}

ExerciseCount == 10   \* mockExercises of every language

NullResult == [kind |-> "null", accuracy |-> 0, wab_score |-> 0]
(* How a scoring call ended: "pending" while it is in flight, "answered"   *)
(* with the scores of the answer, or "failed"                              *)
NoOutcome == [kind |-> "none", accuracy |-> 0, wab_score |-> 0]
Pending == [kind |-> "pending", accuracy |-> 0, wab_score |-> 0]
Failed == [kind |-> "failed", accuracy |-> 0, wab_score |-> 0]
Answer(r) == [kind |-> "answered", accuracy |-> r.accuracy, wab_score |-> r.wab_score]

Feedback(r) == [kind |-> "feedback", accuracy |-> r.accuracy, wab_score |-> r.wab_score]

(* State after the first render and its effect (the effect on language and *)
(* difficulty), which fills the exercises                                  *)
PTInit ==
    /\ ptOpen = TRUE
    /\ ptVariant \in Variants
    /\ language = "en"
    /\ exercises = [lang |-> "en", len |-> ExerciseCount]
    /\ currentIndex = 0
    /\ ptIsRecording = FALSE
    /\ audioBlob = 0
    /\ ptIsProcessing = FALSE
    /\ ptResult = NullResult
    /\ showResult = FALSE
    /\ hasPlayedWord = FALSE
    /\ isPlayingWord = FALSE
    /\ ptMediaRecorderRef = 0
    /\ ptRecorders = {}
    /\ plays = 0
    /\ feedback = << >>
    /\ ptNotice = "none"
    /\ ptOutcome = NoOutcome

(* The screen is not on display *)
PTIdle ==
    /\ ptOpen = FALSE
    /\ ptVariant = 1
    /\ language = "en"
    /\ exercises = [lang |-> "en", len |-> 0]
    /\ currentIndex = 0
    /\ ptIsRecording = FALSE
    /\ audioBlob = 0
    /\ ptIsProcessing = FALSE
    /\ ptResult = NullResult
    /\ showResult = FALSE
    /\ hasPlayedWord = FALSE
    /\ isPlayingWord = FALSE
    /\ ptMediaRecorderRef = 0
    /\ ptRecorders = {}
    /\ plays = 0
    /\ feedback = << >>
    /\ ptNotice = "none"
    /\ ptOutcome = NoOutcome

(* resetExercise: variant 1 also clears isRecording *)
resetExercise ==
    /\ hasPlayedWord' = FALSE
    /\ isPlayingWord' = FALSE
    /\ ptIsRecording' = IF ptVariant = 1 THEN FALSE ELSE ptIsRecording
    /\ audioBlob' = 0
    /\ ptResult' = NullResult
    /\ showResult' = FALSE

(* The language select, disabled once the word was played; the effect on   *)
(* language replaces the exercises and resets the exercise                 *)
setLanguage(newLanguage) ==
    /\ ptOpen /\ ~hasPlayedWord
    /\ newLanguage # language
    /\ language' = newLanguage
    /\ exercises' = [lang |-> newLanguage, len |-> ExerciseCount]
    /\ currentIndex' = 0
    /\ resetExercise
    /\ UNCHANGED << ptOpen, ptVariant, ptIsProcessing, ptMediaRecorderRef,
                    ptRecorders, plays, feedback, ptNotice, ptOutcome,
                    tsVars, clVars, authVars >>

(* playWord, up to the await: the button of step 1 *)
playWord ==
    /\ ptOpen /\ ~showResult /\ ~hasPlayedWord /\ ~isPlayingWord
    /\ currentIndex < exercises.len
    /\ plays < MaxPlays
    /\ isPlayingWord' = TRUE
    /\ plays' = plays + 1
    /\ UNCHANGED << ptOpen, ptVariant, language, exercises, currentIndex,
                    ptIsRecording, audioBlob, ptIsProcessing, ptResult,
                    showResult, hasPlayedWord, ptMediaRecorderRef,
                    ptRecorders, feedback, ptNotice, ptOutcome, tsVars,
                    clVars, authVars >>

(* The word has ended, the audio failed, or the call threw: onended,       *)
(* onerror and the catch block all write the same two cells                *)
PlayWordEnds ==
    /\ ptOpen /\ plays > 0
    /\ plays' = plays - 1
    /\ isPlayingWord' = FALSE
    /\ hasPlayedWord' = TRUE
    /\ UNCHANGED << ptOpen, ptVariant, language, exercises, currentIndex,
                    ptIsRecording, audioBlob, ptIsProcessing, ptResult,
                    showResult, ptMediaRecorderRef, ptRecorders, feedback,
                    ptNotice, ptOutcome, tsVars, clVars, authVars >>

(* Variant 2 does not await audio.play(): when it rejects, nothing is      *)
(* written                                                                 *)
PlayWordRejected ==
    /\ ptOpen /\ plays > 0 /\ ptVariant = 2
    /\ plays' = plays - 1
    /\ UNCHANGED << ptOpen, ptVariant, language, exercises, currentIndex,
                    ptIsRecording, audioBlob, ptIsProcessing, ptResult,
                    showResult, hasPlayedWord, isPlayingWord,
                    ptMediaRecorderRef, ptRecorders, feedback, ptNotice,
                    ptOutcome, tsVars, clVars, authVars >>

PTFreshId == CHOOSE n \in 1..MaxRecorders : \A r \in ptRecorders : r.id # n

(* A variant of the record button that is offered before the word was      *)
(* played                                                                  *)
ptStartRecordingUnheard ==
    /\ ptOpen /\ ~showResult /\ audioBlob = 0
    /\ ~ptIsRecording
    /\ Cardinality(ptRecorders) < MaxRecorders
    /\ ptRecorders' = ptRecorders \cup {[id |-> PTFreshId, state |-> "acquiring"]}
    /\ UNCHANGED << ptOpen, ptVariant, language, exercises, currentIndex,
                    ptIsRecording, audioBlob, ptIsProcessing, ptResult,
                    showResult, hasPlayedWord, isPlayingWord,
                    ptMediaRecorderRef, plays, feedback, ptNotice,
                    ptOutcome, tsVars, clVars, authVars >>

(* startRecording of PictureTherapy, up to the await of getUserMedia: the  *)
(* button of step 2 while it reads Start Recording                         *)
ptStartRecording ==
    /\ ptOpen /\ ~showResult /\ hasPlayedWord /\ audioBlob = 0
    /\ ~ptIsRecording
    /\ Cardinality(ptRecorders) < MaxRecorders
    /\ ptRecorders' = ptRecorders \cup {[id |-> PTFreshId, state |-> "acquiring"]}
    /\ UNCHANGED << ptOpen, ptVariant, language, exercises, currentIndex,
                    ptIsRecording, audioBlob, ptIsProcessing, ptResult,
                    showResult, hasPlayedWord, isPlayingWord,
                    ptMediaRecorderRef, plays, feedback, ptNotice,
                    ptOutcome, tsVars, clVars, authVars >>

(* A recorder nothing refers to any more keeps recording *)
PTUnreachable(q) ==
    IF q.id = ptMediaRecorderRef /\ q.state = "recording"
    THEN [q EXCEPT !.state = "leaked"] ELSE q

(* getUserMedia resolved: the recorder is created, stored in the ref and   *)
(* started                                                                 *)
PTGetUserMediaOk(r) ==
    /\ ptOpen /\ r.state = "acquiring"
    /\ ptRecorders' = { IF q = r THEN [q EXCEPT !.state = "recording"]
                                 ELSE PTUnreachable(q) : q \in ptRecorders }
    /\ ptMediaRecorderRef' = r.id
    /\ ptIsRecording' = TRUE
    /\ UNCHANGED << ptOpen, ptVariant, language, exercises, currentIndex,
                    audioBlob, ptIsProcessing, ptResult, showResult,
                    hasPlayedWord, isPlayingWord, plays, feedback, ptNotice,
                    ptOutcome, tsVars, clVars, authVars >>

(* getUserMedia rejected: the catch block alerts *)
PTGetUserMediaDenied(r) ==
    /\ ptOpen /\ r.state = "acquiring"
    /\ ptRecorders' = ptRecorders \ {r}
    /\ ptNotice' = "microphone"
    /\ UNCHANGED << ptOpen, ptVariant, language, exercises, currentIndex,
                    ptIsRecording, audioBlob, ptIsProcessing, ptResult,
                    showResult, hasPlayedWord, isPlayingWord,
                    ptMediaRecorderRef, plays, feedback, ptOutcome, tsVars,
                    clVars, authVars >>

(* stopRecording of PictureTherapy: the button of step 2 while it reads    *)
(* Stop Recording                                                          *)
ptStopRecording ==
    /\ ptOpen /\ ~showResult /\ hasPlayedWord /\ audioBlob = 0
    /\ ptIsRecording
    /\ ptMediaRecorderRef > 0
    /\ \E r \in ptRecorders : r.id = ptMediaRecorderRef /\ r.state = "recording"
    /\ ptRecorders' = { IF q.id = ptMediaRecorderRef
                        THEN [q EXCEPT !.state = "stopping"] ELSE q : q \in ptRecorders }
    /\ ptIsRecording' = FALSE
    /\ UNCHANGED << ptOpen, ptVariant, language, exercises, currentIndex,
                    audioBlob, ptIsProcessing, ptResult, showResult,
                    hasPlayedWord, isPlayingWord, ptMediaRecorderRef, plays,
                    feedback, ptNotice, ptOutcome, tsVars, clVars, authVars >>

(* mediaRecorder.onstop of PictureTherapy: the recording becomes audioBlob *)
PTOnStop(r) ==
    /\ ptOpen /\ r.state = "stopping"
    /\ ptRecorders' = ptRecorders \ {r}
    /\ ptMediaRecorderRef' = IF ptMediaRecorderRef = r.id THEN -1 ELSE ptMediaRecorderRef
    /\ audioBlob' = 1
    /\ UNCHANGED << ptOpen, ptVariant, language, exercises, currentIndex,
                    ptIsRecording, ptIsProcessing, ptResult, showResult,
                    hasPlayedWord, isPlayingWord, plays, feedback, ptNotice,
                    ptOutcome, tsVars, clVars, authVars >>

(* processAudio of PictureTherapy, up to the await: the Submit button of   *)
(* step 3, shown while there is an audioBlob and disabled while processing *)
ptProcessAudio ==
    /\ ptOpen /\ ~showResult /\ audioBlob # 0 /\ ~ptIsProcessing
    /\ currentIndex < exercises.len
    /\ ptIsProcessing' = TRUE
    /\ feedback' = Append(feedback, [index |-> currentIndex])
    /\ ptOutcome' = Pending
    /\ UNCHANGED << ptOpen, ptVariant, language, exercises, currentIndex,
                    ptIsRecording, audioBlob, ptResult, showResult,
                    hasPlayedWord, isPlayingWord, ptMediaRecorderRef,
                    ptRecorders, plays, ptNotice, tsVars, clVars, authVars >>

(* The scoring call returned: the answer becomes the result and is shown *)
FeedbackOk(i, r) ==
    /\ ptOpen /\ i \in 1..Len(feedback)
    /\ feedback' = RemoveAt(feedback, i)
    /\ ptResult' = Feedback(r)
    /\ showResult' = TRUE
    /\ ptIsProcessing' = FALSE
    /\ ptOutcome' = Answer(r)
    /\ UNCHANGED << ptOpen, ptVariant, language, exercises, currentIndex,
                    ptIsRecording, audioBlob, hasPlayedWord, isPlayingWord,
                    ptMediaRecorderRef, ptRecorders, plays, ptNotice,
                    tsVars, clVars, authVars >>

(* The scoring call failed: an alert, and nothing else but the finally     *)
(* block                                                                   *)
FeedbackFail(i) ==
    /\ ptOpen /\ i \in 1..Len(feedback)
    /\ feedback' = RemoveAt(feedback, i)
    /\ ptNotice' = "processing"
    /\ ptIsProcessing' = FALSE
    /\ ptOutcome' = Failed
    /\ UNCHANGED << ptOpen, ptVariant, language, exercises, currentIndex,
                    ptIsRecording, audioBlob, ptResult, showResult,
                    hasPlayedWord, isPlayingWord, ptMediaRecorderRef,
                    ptRecorders, plays, tsVars, clVars, authVars >>

(* nextExercise: the button of the results view *)
nextExercise ==
    /\ ptOpen /\ showResult
    /\ currentIndex < exercises.len - 1
    /\ currentIndex' = currentIndex + 1
    /\ resetExercise
    /\ UNCHANGED << ptOpen, ptVariant, language, exercises, ptIsProcessing,
                    ptMediaRecorderRef, ptRecorders, plays, feedback,
                    ptNotice, ptOutcome, tsVars, clVars, authVars >>

(* tryAgain: Record Again of step 3 and Try Again of the results view *)
tryAgain ==
    /\ ptOpen /\ (showResult \/ audioBlob # 0)
    /\ resetExercise
    /\ UNCHANGED << ptOpen, ptVariant, language, exercises, currentIndex,
                    ptIsProcessing, ptMediaRecorderRef, ptRecorders, plays,
                    feedback, ptNotice, ptOutcome, tsVars, clVars, authVars >>

PTNext ==
    \/ \E l \in Languages : setLanguage(l)
    \/ playWord
    \/ PlayWordEnds
    \/ PlayWordRejected
    \/ ptStartRecording
    \/ \E r \in ptRecorders : PTGetUserMediaOk(r)
    \/ \E r \in ptRecorders : PTGetUserMediaDenied(r)
    \/ ptStopRecording
    \/ \E r \in ptRecorders : PTOnStop(r)
    \/ ptProcessAudio
    \/ \E i \in 1..Len(feedback) : \E r \in InRangeResults : FeedbackOk(i, r)
    \/ \E i \in 1..Len(feedback) : FeedbackFail(i)
    \/ nextExercise
    \/ tryAgain

-----------------------------------------------------------------------------
(* The classifier on its own: getDifficultyFromWabScore applied to scores  *)
(* on both sides of its thresholds, in thousandths.                        *)

ScorePoints ==
    { -5000, 0, 25000, 50000, 50999, 51000, 51001, 63500,
      75000, 75999, 76000, 76001, 100000, 120000 }

Unclassified == << "none", "none" >>

ClIdle ==
    /\ wabScores = << Frac(0, 1), Frac(0, 1) >>
    /\ tiers = Unclassified

ClInit ==
    /\ \E a, b \in ScorePoints :
          /\ a <= b
          /\ wabScores = << Frac(a, 1000), Frac(b, 1000) >>
    /\ tiers = Unclassified

(* Two calls of getDifficultyFromWabScore, lines 606-611 *)
Classify ==
    /\ tiers' = << getDifficultyFromWabScore(wabScores[1]),
                   getDifficultyFromWabScore(wabScores[2]) >>
    /\ UNCHANGED << wabScores, tsVars, ptVars, authVars >>

(* Other scores are handed in *)
Draw(a, b) ==
    /\ a <= b
    /\ wabScores' = << Frac(a, 1000), Frac(b, 1000) >>
    /\ tiers' = Unclassified
    /\ UNCHANGED << tsVars, ptVars, authVars >>

-----------------------------------------------------------------------------
(* ProtectedRoute and AuthProvider,                                        *)
(* src/frontend/src/components/ProtectedRoute.tsx lines 10-180, under the  *)
(* routes of the application (README.md lines 385-406).  A step is one     *)
(* handler or continuation together with the render its commit causes:     *)
(* when ProtectedRoute returns a Navigate element, the router moves to its *)
(* target in that step.                                                    *)

Paths == {"/", "/login", "/register", "/patient"}

NoUser == [userType |-> "null"]
User(t) == [userType |-> t]

(* What localStorage can hold when the application starts: nothing, what   *)
(* login and register wrote, a user record with another userType, or a     *)
(* value of the key user that is not JSON                                  *)
Stored(u, known) == [user |-> u, userId |-> known, token |-> known]

StoredStates ==
    { Stored("none", FALSE), Stored("patient", TRUE), Stored("other", TRUE),
      Stored("corrupt", TRUE) }

(* A variant of ProtectedRoute that does not wait for the stored-session   *)
(* check                                                                   *)
ProtectedRouteNotWaiting(u, l, required) ==
    IF u = NoUser THEN "login"
    ELSE IF required # "none" /\ u.userType # required THEN "home"
    ELSE "children"

(* ProtectedRoute, lines 10-30: what it returns *)
ProtectedRoute(u, l, required) ==
    IF l THEN "spinner"
    ELSE IF u = NoUser THEN "login"
    ELSE IF required # "none" /\ u.userType # required THEN "home"
    ELSE "children"

(* The router at path loc with the auth state u, l: the path it ends at    *)
(* and what ProtectedRoute returned; other paths do not render it          *)
Routed(u, l, loc) ==
    IF loc # "/patient" THEN [location |-> loc, rendered |-> "none"]
    ELSE LET out == ProtectedRoute(u, l, userType) IN
         [location |-> IF out = "login" THEN "/login"
                       ELSE IF out = "home" THEN "/"
                       ELSE loc,
          rendered |-> out]

Show(u, l, loc) ==
    /\ location' = Routed(u, l, loc).location
    /\ rendered' = Routed(u, l, loc).rendered

(* The first render of the application at some path: lines 68-69 *)
AuthInit ==
    /\ user = NoUser
    /\ loading = TRUE
    /\ localStorage \in StoredStates
    /\ requests = << >>
    /\ userType \in {"none", "patient"}
    /\ location \in Paths
    /\ rendered = IF location = "/patient" THEN "spinner" ELSE "none"
    /\ crashed = FALSE

(* The application is not running *)
AuthIdle ==
    /\ user = NoUser
    /\ loading = TRUE
    /\ localStorage = Stored("none", FALSE)
    /\ requests = << >>
    /\ userType = "patient"
    /\ location = "/"
    /\ rendered = "none"
    /\ crashed = FALSE

Running == ~crashed /\ ~loading

(* The effect of lines 72-79.  JSON.parse throws on a value that is not    *)
(* JSON: setLoading(false) is not reached and the error unmounts the tree. *)
StoredSessionCheck ==
    /\ ~crashed /\ loading
    /\ IF localStorage.user = "corrupt"
       THEN /\ crashed' = TRUE
            /\ rendered' = "none"
            /\ UNCHANGED << user, loading, location >>
       ELSE /\ user' = IF localStorage.user = "none" THEN NoUser
                       ELSE User(localStorage.user)
            /\ loading' = FALSE
            /\ Show(user', FALSE, location)
            /\ UNCHANGED crashed
    /\ UNCHANGED << localStorage, requests, userType, tsVars, ptVars, clVars >>

(* login up to its first await, lines 81-88, from the login page *)
login ==
    /\ Running /\ location = "/login"
    /\ Len(requests) < MaxRequests
    /\ requests' = Append(requests, [kind |-> "login", stage |-> "auth"])
    /\ UNCHANGED << user, loading, localStorage, location, userType,
                    rendered, crashed, tsVars, ptVars, clVars >>

(* lines 90-113: the login call answered ok, the profile is fetched *)
LoginOk(i) ==
    /\ Running
    /\ requests[i] = [kind |-> "login", stage |-> "auth"]
    /\ requests' = [requests EXCEPT ![i].stage = "profile"]
    /\ UNCHANGED << user, loading, localStorage, location, userType,
                    rendered, crashed, tsVars, ptVars, clVars >>

(* lines 90-93 and 122-125: the login call failed; the error is rethrown *)
LoginFail(i) ==
    /\ Running
    /\ requests[i] = [kind |-> "login", stage |-> "auth"]
    /\ requests' = RemoveAt(requests, i)
    /\ UNCHANGED << user, loading, localStorage, location, userType,
                    rendered, crashed, tsVars, ptVars, clVars >>

(* lines 107-121: the profile call has answered or failed; either way the  *)
(* user is set and stored                                                  *)
ProfileDone(i) ==
    /\ Running
    /\ requests[i] = [kind |-> "login", stage |-> "profile"]
    /\ requests' = RemoveAt(requests, i)
    /\ user' = User("patient")
    /\ localStorage' = Stored("patient", TRUE)
    /\ Show(user', loading, location)
    /\ UNCHANGED << loading, userType, crashed, tsVars, ptVars, clVars >>

(* register up to its await, lines 128-144, from the register page *)
register ==
    /\ Running /\ location = "/register"
    /\ Len(requests) < MaxRequests
    /\ requests' = Append(requests, [kind |-> "register", stage |-> "auth"])
    /\ UNCHANGED << user, loading, localStorage, location, userType,
                    rendered, crashed, tsVars, ptVars, clVars >>

(* lines 151-163 *)
RegisterOk(i) ==
    /\ Running
    /\ requests[i] = [kind |-> "register", stage |-> "auth"]
    /\ requests' = RemoveAt(requests, i)
    /\ user' = User("patient")
    /\ localStorage' = Stored("patient", TRUE)
    /\ Show(user', loading, location)
    /\ UNCHANGED << loading, userType, crashed, tsVars, ptVars, clVars >>

(* lines 146-149 and 164-167 *)
RegisterFail(i) ==
    /\ Running
    /\ requests[i] = [kind |-> "register", stage |-> "auth"]
    /\ requests' = RemoveAt(requests, i)
    /\ UNCHANGED << user, loading, localStorage, location, userType,
                    rendered, crashed, tsVars, ptVars, clVars >>

(* logout, lines 170-174, called by handleLogout of Header.tsx, lines      *)
(* 30-33, which then navigates to "/"; the button is shown when a user is  *)
(* set (Header.tsx line 141)                                               *)
logout ==
    /\ Running /\ user # NoUser
    /\ user' = NoUser
    /\ localStorage' = [localStorage EXCEPT !.user = "none", !.token = FALSE]
    /\ Show(user', loading, "/")
    /\ UNCHANGED << loading, requests, userType, crashed, tsVars, ptVars,
                    clVars >>

(* The user follows a link or enters a path *)
GoTo(p) ==
    /\ Running /\ p # location
    /\ Show(user, loading, p)
    /\ UNCHANGED << user, loading, localStorage, requests, userType,
                    crashed, tsVars, ptVars, clVars >>

(* The page is loaded anew: AuthProvider is mounted with its initial state *)
Reload ==
    /\ ~loading
    /\ user' = NoUser
    /\ loading' = TRUE
    /\ requests' = << >>
    /\ crashed' = FALSE
    /\ Show(NoUser, TRUE, location)
    /\ UNCHANGED << localStorage, userType, tsVars, ptVars, clVars >>

InitAuth == TSIdle /\ PTIdle /\ ClIdle /\ AuthInit

NextAuth ==
    \/ StoredSessionCheck
    \/ login
    \/ \E i \in 1..Len(requests) : LoginOk(i)
    \/ \E i \in 1..Len(requests) : LoginFail(i)
    \/ \E i \in 1..Len(requests) : ProfileDone(i)
    \/ register
    \/ \E i \in 1..Len(requests) : RegisterOk(i)
    \/ \E i \in 1..Len(requests) : RegisterFail(i)
    \/ logout
    \/ \E p \in Paths : GoTo(p)
    \/ Reload

SpecAuth == InitAuth /\ [][NextAuth]_vars

-----------------------------------------------------------------------------
InitClassifier == TSIdle /\ PTIdle /\ ClInit /\ AuthIdle

NextClassifier ==
    \/ Classify
    \/ \E a, b \in ScorePoints : Draw(a, b)

SpecClassifier == InitClassifier /\ [][NextClassifier]_vars

-----------------------------------------------------------------------------
(* One of the two screens is opened *)
Init ==
    \/ TSInit /\ PTIdle /\ ClIdle /\ AuthIdle
    \/ TSIdle /\ PTInit /\ ClIdle /\ AuthIdle

Next ==
    \/ TSNext
    \/ PTNext

Spec == Init /\ [][Next]_vars

-----------------------------------------------------------------------------
(* Properties *)

(* A step in which a successful answer of the scoring service is handled *)
ScoredStep == scored'.count = scored.count + 1

(* A step in which a failed scoring call is handled *)
FailedStep == mounted' /\ Len(scoring') < Len(scoring) /\ scored' = scored

(* A step in which the answer to completeSession is handled *)
CompletionStep == completion'.n = completion.n + 1

Positive(r) == r.accuracy > 0 \/ r.wab_score > 0

(* C1: the current tier is never changed to a newly classified tier        *)
(* without a confirmation by the user: handling a successful scoring       *)
(* response leaves the current tier as it was.                             *)
C1_TierKeptUntilConfirmed ==
    [][ScoredStep => currentDifficulty' = currentDifficulty]_vars

(* C2: a failed scoring call is not counted: the completed count, the      *)
(* running mean accuracy and the accumulated clinical-score total are      *)
(* what they were before the attempt.                                      *)
C2_FailureNotCounted ==
    [][FailedStep =>
          /\ sessionProgress'.completed = sessionProgress.completed
          /\ sessionProgress'.accuracy = sessionProgress.accuracy
          /\ sessionProgress'.totalWabScore = sessionProgress.totalWabScore]_vars

(* The scoring call of attempt 3 has failed and the count is still 2 *)
C2_FailedOnThirdAttempt ==
    /\ mounted
    /\ sessionResult.transcription = "[Error processing audio]"
    /\ sessionProgress.current = 3
    /\ sessionProgress.completed = 2

(* C3: no error path fabricates a success score.  What is aggregated is    *)
(* what successful scoring responses reported; a result with a positive    *)
(* accuracy or clinical score is shown only when such a response arrives;  *)
(* a failed call leaves a result with score 0 in TherapySession and no     *)
(* result in PictureTherapy, and adds nothing to the aggregates.           *)
C3_NoFabricatedScore ==
    /\ [](/\ sessionProgress.completed = scored.count
          /\ sessionProgress.totalWabScore = scored.wab
          /\ sessionProgress.accuracy[1] * scored.count
                = scored.accuracy * sessionProgress.accuracy[2])
    /\ [](ptResult # NullResult =>
              /\ ptOutcome.kind = "answered"
              /\ ptResult.accuracy = ptOutcome.accuracy
              /\ ptResult.wab_score = ptOutcome.wab_score)
    /\ [](ptOutcome.kind = "failed" => ptResult = NullResult /\ ~showResult)
    /\ [][sessionResult' # sessionResult /\ Positive(sessionResult') =>
              /\ ScoredStep
              /\ sessionResult'.accuracy = scored'.accuracy - scored.accuracy
              /\ sessionResult'.wab_score = scored'.wab - scored.wab]_vars
    /\ [][FailedStep =>
              /\ sessionResult'.accuracy = 0
              /\ sessionResult'.wab_score = 0
              /\ sessionProgress' = sessionProgress]_vars

(* The scoring call of PictureTherapy has failed: the recording is still    *)
(* there, an alert was raised and there is no result                        *)
C3_PictureFailureShowsNothing ==
    /\ ptOpen
    /\ ptOutcome.kind = "failed"
    /\ ptNotice = "processing"
    /\ audioBlob = 1
    /\ ptResult = NullResult

(* C4 as stated: when completeSession returns a tier that differs from the *)
(* tier the controller holds, the controller's current tier becomes the    *)
(* tier of the answer, whatever the user answers.                          *)
C4_ServerTierAdopted ==
    [][CompletionStep /\ completion'.tier \notin {"none", currentDifficulty}
          => currentDifficulty' = completion'.tier]_vars

(* C4 amended: when completeSession returns a tier that differs from the   *)
(* tier the request was sent with, the user is asked; on acceptance the    *)
(* current tier becomes the tier of the answer, on refusal the tier stays  *)
(* and the screen is left.                                                 *)
C4_ServerTierAdoptedOnAccept ==
    [][CompletionStep /\ completion'.tier \notin {"none", completion'.asked} =>
          IF completion'.then = "accepted"
          THEN currentDifficulty' = completion'.tier /\ mounted'
          ELSE /\ completion'.then = "declined"
               /\ currentDifficulty' = currentDifficulty
               /\ ~mounted']_vars

(* The server answered medium to a session held at easy, the user accepted *)
C4_AcceptedMedium ==
    /\ mounted
    /\ completion.then = "accepted"
    /\ completion.asked = "easy"
    /\ completion.tier = "medium"
    /\ currentDifficulty = "medium"
    /\ timers # << >>

(* C5: a successful scoring response increases the completed count by one  *)
(* and replaces the running mean by                                        *)
(* (oldMean * oldCount + newScore) / (oldCount + 1); within a session no   *)
(* other step changes the count or the mean.                               *)
C5_CountAndMean ==
    [][/\ ScoredStep =>
            LET old == sessionProgress
                newScore == scored'.accuracy - scored.accuracy
            IN  /\ sessionProgress'.completed = old.completed + 1
                /\ sessionProgress'.accuracy =
                      Frac(old.accuracy[1] * old.completed + newScore * old.accuracy[2],
                           old.accuracy[2] * (old.completed + 1))
       /\ ~ScoredStep /\ ~CompletionStep =>
            /\ sessionProgress'.completed = sessionProgress.completed
            /\ sessionProgress'.accuracy = sessionProgress.accuracy]_vars

(* Three attempts scored 40, 90 and 90 in some order: the mean is 220/3 *)
C5_ThreeScored ==
    /\ mounted
    /\ scored.count = 3
    /\ sessionProgress.completed = 3
    /\ sessionProgress.accuracy = << 220, 3 >>

(* C6: after any successful attempts of a session the running mean is the  *)
(* arithmetic mean of the scores clamped to 0..100.                        *)
C6_MeanOfClampedScores ==
    scored.count > 0 =>
        sessionProgress.accuracy = Frac(scored.clamped, scored.count)

(* C7: the running mean and the aggregate handed to the classifier stay    *)
(* within 0..100, whatever the scoring service reports.                    *)
C7_AggregatesInRange ==
    /\ FracGeq(sessionProgress.accuracy, 0)
    /\ FracLeq(sessionProgress.accuracy, 100)
    /\ 0 <= sessionProgress.totalWabScore
    /\ sessionProgress.totalWabScore <= 100 * sessionProgress.completed

(* C8: the classifier answers hard for a score s >= 76, medium for         *)
(* 51 <= s < 76 and easy for s < 51.                                       *)
C8_Bands ==
    tiers # Unclassified =>
        \A k \in {1, 2} :
            LET n == wabScores[k][1]
                d == wabScores[k][2]
            IN  /\ tiers[k] = "hard" <=> n >= 76 * d
                /\ tiers[k] = "medium" <=> (51 * d <= n /\ n < 76 * d)
                /\ tiers[k] = "easy" <=> n < 51 * d

(* The scores 51 and 76 were classified *)
C8_LowerBoundsClassified ==
    /\ wabScores = << << 51, 1 >>, << 76, 1 >> >>
    /\ tiers = << "medium", "hard" >>

Rank(t) == CASE t = "easy" -> 1 [] t = "medium" -> 2 [] t = "hard" -> 3 [] OTHER -> 0

(* C9: the classifier is deterministic and monotonic: classifying the same *)
(* score again gives the same tier, equal scores get equal tiers, and for  *)
(* scores a <= b the tier of a is not above the tier of b.                 *)
C9_DeterministicMonotonic ==
    [][tiers' # Unclassified =>
          /\ Rank(tiers'[1]) >= 1
          /\ Rank(tiers'[1]) <= Rank(tiers'[2])
          /\ wabScores'[1] = wabScores'[2] => tiers'[1] = tiers'[2]
          /\ tiers # Unclassified /\ wabScores' = wabScores => tiers' = tiers]_vars

(* The scores 75.999 and 76 were classified *)
C9_AcrossUpperThreshold ==
    /\ wabScores = << << 75999, 1000 >>, << 76, 1 >> >>
    /\ tiers = << "medium", "hard" >>

(* C10: there is never more than one scoring request outstanding, and      *)
(* never more than one recording being acquired or running.                *)
C10_OneAttemptAtATime ==
    /\ Len(scoring) <= 1
    /\ Cardinality({ r \in recorders : r.state \in {"acquiring", "recording"} }) <= 1

(* C11: every media stream acquired by startRecording is released on every *)
(* exit path: once the screen has been left, no recorder is left recording *)
(* on a stream whose tracks were never stopped.                            *)
C11_StreamsReleasedOnExit ==
    ~mounted => \A r \in recorders : r.state \notin {"recording", "leaked"}

(* C12: a failure of startSession never blocks practice: in local mode,    *)
(* once every pending session start and sentence load has been answered,   *)
(* a current exercise is presented.                                        *)
C12_LocalModePresentsExercise ==
    (/\ mounted
     /\ sessionId = OfflineSession
     /\ starts = << >> /\ timers = << >> /\ loads = << >>)
        => currentSentence # NoSentence

(* C13: in local mode no session-scoped request is sent to the server:     *)
(* no attempt is submitted with the fallback session id and no             *)
(* completeSession call is made with it.                                   *)
C13_LocalModeSendsNothing ==
    /\ \A i \in 1..Len(scoring) : scoring[i].sessionId # OfflineSession
    /\ \A i \in 1..Len(completing) : completing[i].sessionId # OfflineSession

(* A step in which a failed startSession call is handled *)
StartFailedStep ==
    mounted' /\ Len(starts') < Len(starts) /\ sessionId' = OfflineSession

(* C14: whenever a startSession or completeSession call fails, a           *)
(* user-visible notice is raised.                                          *)
C14_FailureRaisesNotice ==
    [][(StartFailedStep \/ (CompletionStep /\ completion'.then = "failed"))
          => notice' # "none"]_vars

(* C15: a completeSession request is issued only by a nextSentence call    *)
(* made at the quota (current = total), one request per call, and there is *)
(* a session id whenever such a call can be made; a nextSentence call      *)
(* below the quota advances the position by one and issues none.           *)
C15_FinalizedAtQuota ==
    /\ [](sessionProgress.current <= sessionProgress.total)
    /\ [](NextShown /\ sessionProgress.current = sessionProgress.total
              => sessionId # NullSession)
    /\ [][Len(completing') > Len(completing) =>
              /\ NextShown
              /\ sessionProgress.current = sessionProgress.total
              /\ Len(completing') = Len(completing) + 1
              /\ completing'[Len(completing')].sessionId = sessionId
              /\ sessionProgress' = sessionProgress]_vars
    /\ [][sessionProgress'.current # sessionProgress.current /\ ~CompletionStep =>
              /\ NextShown
              /\ sessionProgress.current < sessionProgress.total
              /\ sessionProgress'.current = sessionProgress.current + 1
              /\ completing' = completing]_vars

(* The quota is used up and completeSession has been sent *)
C15_FinalizeRequested ==
    /\ mounted
    /\ sessionProgress.current = sessionProgress.total
    /\ Len(completing) = 1
    /\ completing[1].sessionId = sessionId

C17_ConfirmedTierEverywhere ==
    /\ [][CompletionStep /\ completion'.then = "accepted"
              => sessionProgress' = FreshProgress]_vars
    /\ [][Len(starts') > Len(starts) =>
              starts'[Len(starts')].difficulty = completion.tier]_vars
    /\ []((/\ mounted /\ completion.then = "accepted"
           /\ timers = << >> /\ starts = << >> /\ loads = << >>
           /\ completing = << >> /\ scoring = << >> /\ recorders = {}
           /\ scored.count = 0)
              => /\ currentDifficulty = completion.tier
                 /\ availableSentences.difficulty = completion.tier)

(* C18: when the user declines a tier transition, the current tier, the    *)
(* progress counters and the loaded batch are unchanged by the refusal and *)
(* no new session is started.                                              *)
C18_DeclineKeepsTier ==
    [][CompletionStep /\ completion'.then = "declined" =>
          /\ currentDifficulty' = currentDifficulty
          /\ sessionProgress' = sessionProgress
          /\ availableSentences' = availableSentences
          /\ sessionId' = sessionId
          /\ nSessions' = nSessions
          /\ starts' = << >> /\ timers' = << >>]_vars

(* The server answered medium to a session held at easy, the user declined *)
C18_DeclinedMedium ==
    /\ ~mounted
    /\ completion.then = "declined"
    /\ completion.asked = "easy"
    /\ completion.tier = "medium"
    /\ currentDifficulty = "easy"
    /\ sessionProgress.completed = SessionTotal

(* C19: in every step in which the current tier changes, the accumulated   *)
(* progress (completed count, running mean, score total) is discarded.     *)
C19_ProgressDiscardedOnTierChange ==
    [][currentDifficulty' # currentDifficulty =>
          /\ sessionProgress'.completed = 0
          /\ sessionProgress'.accuracy = << 0, 1 >>
          /\ sessionProgress'.totalWabScore = 0]_vars

DeniedStep ==
    /\ mounted'
    /\ \E r \in recorders : r.state = "acquiring" /\ recorders' = recorders \ {r}

(* The record button is enabled and starts a recording *)
RecordEnabled == CardShown /\ ~isProcessing /\ ~isRecording

(* C21: when getUserMedia is rejected in startRecording the user is        *)
(* notified, the recording flag is not set, no scoring request is sent,    *)
(* the session id, tier, current exercise and progress are unchanged, and  *)
(* the record button is as enabled as it was.                              *)
C21_DenialEndsAttemptOnly ==
    [][DeniedStep =>
          /\ notice' = "microphone"
          /\ isRecording' = isRecording
          /\ isProcessing' = isProcessing
          /\ scoring' = scoring /\ nAttempts' = nAttempts
          /\ sessionId' = sessionId
          /\ currentDifficulty' = currentDifficulty
          /\ currentSentence' = currentSentence
          /\ sentenceIndex' = sentenceIndex
          /\ sessionProgress' = sessionProgress
          /\ mediaRecorderRef' = mediaRecorderRef
          /\ RecordEnabled' = RecordEnabled]_vars

(* The microphone was refused on the second exercise: nothing records, no  *)
(* request is in flight and the record button is enabled                   *)
C21_DeniedOnSecondExercise ==
    /\ notice = "microphone"
    /\ RecordEnabled
    /\ recorders = {}
    /\ scoring = << >>
    /\ sessionProgress.current = 2
    /\ sessionProgress.completed = 1

(* C22: after each successful attempt the tier is the classification of    *)
(* the running mean clinical score over all attempts counted so far in     *)
(* the session, the one just scored included.                              *)
C22_ClassifiedRunningMean ==
    [][ScoredStep =>
          currentDifficulty' =
              getDifficultyFromWabScore(Frac(sessionProgress'.totalWabScore,
                                             sessionProgress'.completed))]_vars

(* A step in which a successful answer to startSession is handled *)
StartedStep ==
    mounted' /\ Len(starts') < Len(starts) /\ sessionId'.kind = "server"

(* C23: when startSession succeeds and reports a current difficulty, the   *)
(* current tier is the reported one once initializeSession has finished,   *)
(* and every exercise batch then requested for the session is requested    *)
(* at that tier.                                                           *)
C23_ReportedTierRules ==
    [][StartedStep /\ reported' # "none" =>
          /\ currentDifficulty' = reported'
          /\ \A k \in (Len(loads) + 1)..Len(loads') :
                loads'[k].difficulty = reported']_vars

(* C24: completeSession is never called twice with the same session id.    *)
C24_FinalizedOnce ==
    \A i, j \in 1..Len(completing) :
        i # j => completing[i].sessionId # completing[j].sessionId

(* C25: the progress counters stay within the quota:                       *)
(* 1 <= current <= total and 0 <= completed <= total.                      *)
C25_CountersWithinQuota ==
    /\ 1 <= sessionProgress.current
    /\ sessionProgress.current <= sessionProgress.total
    /\ 0 <= sessionProgress.completed
    /\ sessionProgress.completed <= sessionProgress.total

(* C26: the Next button is offered only after a successfully scored        *)
(* attempt on the current exercise, so that as many attempts are counted   *)
(* as exercises were reached, and the quota when the session is finalized. *)
C26_NextOnlyAfterScored ==
    /\ [](NextShown => sessionProgress.completed >= sessionProgress.current)
    /\ [][Len(completing') > Len(completing)
              => sessionProgress.completed >= sessionProgress.total]_vars

(* C27: whenever no exercise load is in flight and a current exercise is   *)
(* shown, the current exercise is the element of the loaded batch at the   *)
(* current index, and the batch was loaded for the current tier and        *)
(* language.                                                               *)
C27_ExerciseFromLoadedBatch ==
    (CardShown /\ loads = << >>) =>
        /\ sentenceIndex < availableSentences.len
        /\ currentSentence = SentenceAt(availableSentences, sentenceIndex)
        /\ availableSentences.difficulty = currentDifficulty
        /\ availableSentences.lang = sessionLanguage

(* A step in which a failed getSentences call is handled *)
LoadFailedStep ==
    /\ mounted'
    /\ Len(loads') < Len(loads)
    /\ availableSentences'.src = "mock"

(* C28: when getSentences fails, a non-empty local batch for the           *)
(* difficulty that was requested is installed, the current exercise is     *)
(* its first element, and the loading flag is cleared; the flag is cleared *)
(* when the call succeeds as well.                                         *)
C28_FallbackForRequestedTier ==
    /\ [][LoadFailedStep =>
              \E i \in 1..Len(loads) :
                  /\ loads' = RemoveAt(loads, i)
                  /\ availableSentences'.len > 0
                  /\ availableSentences'.difficulty = loads[i].difficulty
                  /\ currentSentence' = SentenceAt(availableSentences', 0)
                  /\ ~isLoadingSentences']_vars
    /\ [][mounted' /\ Len(loads') < Len(loads) => ~isLoadingSentences']_vars

(* C29: ProtectedRoute renders its children only when the stored-session   *)
(* check has finished, a user is set and the user's type is the required   *)
(* one; while loading it shows the spinner and does not redirect; with no  *)
(* user it redirects to /login; after logout the children are not          *)
(* rendered.                                                               *)
C29_ChildrenOnlyForUser ==
    /\ [](rendered = "children" =>
              /\ location = "/patient"
              /\ ~loading
              /\ user # NoUser
              /\ userType # "none" => user.userType = userType)
    /\ [](location = "/patient" /\ loading /\ ~crashed => rendered = "spinner")
    /\ [](location = "/patient" /\ ~loading => user # NoUser)
    /\ [](rendered = "login" => location = "/login" /\ user = NoUser /\ ~loading)
    /\ [][user # NoUser /\ user' = NoUser => rendered' # "children"]_vars

(* After a logout the protected path was entered again and ProtectedRoute  *)
(* has redirected to /login                                                *)
C29_RedirectedAfterLogout ==
    /\ rendered = "login"
    /\ location = "/login"
    /\ user = NoUser
    /\ userType = "patient"
    /\ localStorage = [user |-> "none", userId |-> TRUE, token |-> FALSE]

(* A step of PictureTherapy that takes the exercise back: the word is no   *)
(* longer played, the recording or the result is dropped                   *)
PTResetStep ==
    /\ ptOpen
    /\ \/ hasPlayedWord /\ ~hasPlayedWord'
       \/ audioBlob # 0 /\ audioBlob' = 0
       \/ showResult /\ ~showResult'

====
